---- MODULE Spec2Model ----
(***************************************************************************)
(* A model of torch/distributed/checkpoint/filesystem.py: the item         *)
(* bucketer (_split_by_size_and_type), the two staging loaders             *)
(* (_SerialCpuLoader, _OverlappingCpuLoader), the shard writer             *)
(* (_write_item, _write_files_from_queue), the writer pool and the         *)
(* metadata commit (FileSystemWriter.write_data / finish) and the shard    *)
(* reader (FileSystemReader).                                              *)
(*                                                                         *)
(* The specifications share the variables:                                 *)
(*   SpecSplit   applies _split_by_size_and_type to bounded inputs;        *)
(*   SpecLoader  drives one loader object through add / start_loading /    *)
(*               values() and the generator's next();                      *)
(*   Spec        runs one checkpoint: write_data with its thread pool,     *)
(*               finish, a process crash, and a reader;                    *)
(*   SpecDup     is Spec started from plans whose identities may repeat;   *)
(*   SpecShard   is write_data alone, over plans that also hold empty      *)
(*               blobs and empty arrays;                                   *)
(*   SpecReader  is the reader alone on a committed checkpoint, with       *)
(*               longer load plans.                                        *)
(***************************************************************************)
EXTENDS Integers, Sequences, FiniteSets, TLC

VARIABLES
    \* ---- _split_by_size_and_type applied to an input
    sp_bins, sp_items, sp_out,
    \* ---- one loader object and the generator returned by values()
    ld, gen, ld_call,
    \* ---- FileSystemWriter configuration and the plan handed to write_data
    plan, thread_count, single_file_per_rank, per_thread_copy_ahead, cuda,
    \* ---- write_data: queues, pool threads, the calling thread's position
    file_queue, result_queue, th, wd,
    \* ---- the checkpoint directory: shard files and the two metadata files
    files, dir_meta,
    \* ---- finish, the process, the reader
    fin, crashed, rd,
    \* ---- history of the run (not program state)
    hist

splitVars  == <<sp_bins, sp_items, sp_out>>
loaderVars == <<ld, gen, ld_call>>
cfgVars    == <<plan, thread_count, single_file_per_rank, per_thread_copy_ahead, cuda>>
poolVars   == <<file_queue, result_queue, th, wd>>
diskVars   == <<files, dir_meta>>
restVars   == <<fin, crashed, rd, hist>>
ckptVars   == <<cfgVars, poolVars, diskVars, restVars>>
vars       == <<splitVars, loaderVars, ckptVars>>

---------------------------------------------------------------------------
(* Bounds of the model *)

MaxSplitItems  == 3   \* items handed to _split_by_size_and_type in SpecSplit
MaxBins        == 3   \* bucket counts tried in SpecSplit
MaxLoaderItems == 3   \* add() calls on the loader in SpecLoader
MaxThreshold   == 2   \* inflight_threshhold values 0..MaxThreshold in SpecLoader
MaxSize        == 2   \* byte size of one item
MaxItems       == 2   \* items of the plan in Spec
MaxThreads     == 2   \* thread_count values 1..MaxThreads in Spec

---------------------------------------------------------------------------
(* Write items, their sizes and payloads *)

BYTE_IO == "BYTE_IO"
TENSOR  == "TENSOR"
ItemTypes == {BYTE_IO, TENSOR}

\* A WriteItem: index is its identity; size is tensor_data.size (a shape) for
\* an array item and the length of the resolved BytesIO buffer for a blob.
MkItem(i, t, n) == [index |-> i, type |-> t, size |-> <<n>>, element_size |-> 1]

RECURSIVE SeqProd(_)
SeqProd(s) == IF s = <<>> THEN 1 ELSE Head(s) * SeqProd(Tail(s))

\* _item_size: product of the shape times the element size
ItemSize(item) == SeqProd(item.size) * item.element_size

\* planner.resolve_data: the payload bytes of an item, distinct per item and
\* per position
ResolveData(item) == [k \in 1..ItemSize(item) |-> 16 * item.index + k]

\* all sequences of n items with identities 1..n, sizes lo..MaxSize
ItemSeqs(n, lo) ==
    { [k \in 1..n |-> MkItem(k, f[k][1], f[k][2])] :
        f \in [1..n -> ItemTypes \X (lo..MaxSize)] }

\* the plans of Spec: blobs of MaxSize bytes, arrays of 1..MaxSize bytes
PlanSeqs(n) ==
    { [k \in 1..n |-> MkItem(k, f[k][1], f[k][2])] :
        f \in [1..n -> ({BYTE_IO} \X {MaxSize}) \cup ({TENSOR} \X (1..MaxSize))] }

Plans == UNION { PlanSeqs(n) : n \in 0..MaxItems }

ItemSeqsUpTo(n, lo) == UNION { ItemSeqs(k, lo) : k \in 0..n }

Range(s) == { s[k] : k \in DOMAIN s }

RECURSIVE Flatten(_)
Flatten(ss) == IF ss = <<>> THEN <<>> ELSE Head(ss) \o Flatten(Tail(ss))

\* number of positions of s holding x
Count(s, x) == Cardinality({ k \in DOMAIN s : s[k] = x })

---------------------------------------------------------------------------
(* _split_by_size_and_type *)

BytesW(items)  == SelectSeq(items, LAMBDA wi : wi.type = BYTE_IO)
TensorW(items) == SelectSeq(items, LAMBDA wi : wi.type # BYTE_IO)

\* list.sort(key, reverse=True) is stable: x goes after every element whose
\* key is >= its own
RECURSIVE InsertDesc(_, _)
InsertDesc(sorted, x) ==
    IF sorted = <<>> THEN <<x>>
    ELSE IF ItemSize(Head(sorted)) >= ItemSize(x)
         THEN <<Head(sorted)>> \o InsertDesc(Tail(sorted), x)
         ELSE <<x>> \o sorted

RECURSIVE SortDescBySize(_)
SortDescBySize(items) ==
    IF items = <<>> THEN <<>>
    ELSE InsertDesc(SortDescBySize(SubSeq(items, 1, Len(items) - 1)),
                    items[Len(items)])

\* for i, wi in enumerate(bytes_w): buckets[i % bins].append(wi)
RECURSIVE AssignBytes(_, _, _)
AssignBytes(buckets, bytes_w, i) ==
    IF i >= Len(bytes_w) THEN buckets
    ELSE LET b == (i % Len(buckets)) + 1
         IN  AssignBytes([buckets EXCEPT ![b] = Append(@, bytes_w[i + 1])],
                         bytes_w, i + 1)

MinIndexMutNoKey(bucket_sizes) == 1

MinIndexMutLast(bucket_sizes) ==
    CHOOSE i \in DOMAIN bucket_sizes :
        /\ \A j \in DOMAIN bucket_sizes : bucket_sizes[i] <= bucket_sizes[j]
        /\ \A j \in DOMAIN bucket_sizes : bucket_sizes[j] = bucket_sizes[i] => j <= i

\* min(enumerate(bucket_sizes), key=lambda x: x[1])[0]: the first index of a
\* smallest size (1-based here)
MinIndex(bucket_sizes) ==
    CHOOSE i \in DOMAIN bucket_sizes :
        /\ \A j \in DOMAIN bucket_sizes : bucket_sizes[i] <= bucket_sizes[j]
        /\ \A j \in DOMAIN bucket_sizes : bucket_sizes[j] = bucket_sizes[i] => i <= j

\* for wi in tensor_w: idx = min(...); buckets[idx].append(wi);
\*                     bucket_sizes[idx] += _item_size(wi)
RECURSIVE AssignTensors(_, _, _)
AssignTensors(buckets, bucket_sizes, tensor_w) ==
    IF tensor_w = <<>> THEN buckets
    ELSE LET wi  == Head(tensor_w)
             idx == MinIndex(bucket_sizes)
         IN  AssignTensors([buckets EXCEPT ![idx] = Append(@, wi)],
                           [bucket_sizes EXCEPT ![idx] = @ + ItemSize(wi)],
                           Tail(tensor_w))

SplitMutDropBlob(bins, items) ==
    IF bins = 1 THEN <<items>>
    ELSE AssignTensors(AssignBytes([b \in 1..bins |-> <<>>], BytesW(items), 1),
                       [b \in 1..bins |-> 0],
                       SortDescBySize(TensorW(items)))

SplitBySizeAndType(bins, items) ==
    IF bins = 1 THEN <<items>>
    ELSE AssignTensors(AssignBytes([b \in 1..bins |-> <<>>], BytesW(items), 0),
                       [b \in 1..bins |-> 0],
                       SortDescBySize(TensorW(items)))

---------------------------------------------------------------------------
(* The staging loaders: _SerialCpuLoader and _OverlappingCpuLoader *)

SERIAL      == "serial"
OVERLAPPING == "overlapping"

\* __init__ of either loader. items holds (size, obj) pairs; current_items
\* holds the objects whose host copies are in flight or ready.
NewLoader(kind, threshhold) ==
    [kind |-> kind, items |-> <<>>, inflight_threshhold |-> threshhold,
     in_flight_data |-> 0, current_items |-> <<>>, idx |-> 0, started |-> FALSE]

NoLoader == NewLoader("none", 0)

\* tensor.numel() * tensor.element_size() of the resolved tensor
TensorBytes(obj) == ItemSize(obj)

\* _done
LoaderDone(l) == l.idx >= Len(l.items)

\* add: the serial loader appends unconditionally; the overlapping loader
\* raises RuntimeError once started
LoaderAdd(l, size, obj) ==
    IF l.kind = OVERLAPPING /\ l.started
    THEN [l |-> l, raised |-> TRUE]
    ELSE [l |-> [l EXCEPT !.items = Append(@, <<size, obj>>)], raised |-> FALSE]

\* items.sort(key=lambda x: x[0]) is stable: x goes after every element whose
\* key is <= its own
RECURSIVE InsertAsc(_, _)
InsertAsc(sorted, x) ==
    IF sorted = <<>> THEN <<x>>
    ELSE IF Head(sorted)[1] <= x[1]
         THEN <<Head(sorted)>> \o InsertAsc(Tail(sorted), x)
         ELSE <<x>> \o sorted

RECURSIVE SortAscBySize(_)
SortAscBySize(items) ==
    IF items = <<>> THEN <<>>
    ELSE InsertAsc(SortAscBySize(SubSeq(items, 1, Len(items) - 1)),
                   items[Len(items)])

RECURSIVE RefillMutNoAccount(_)
RefillMutNoAccount(l) ==
    IF ~LoaderDone(l) /\ l.in_flight_data < l.inflight_threshhold
    THEN LET obj == l.items[l.idx + 1][2]
         IN  RefillMutNoAccount([l EXCEPT !.idx = @ + 1,
                                          !.current_items = Append(@, obj)])
    ELSE l

\* _refill: while not done and in_flight_data < threshold, stage items[idx]
RECURSIVE Refill(_)
Refill(l) ==
    IF ~LoaderDone(l) /\ l.in_flight_data < l.inflight_threshhold
    THEN LET obj == l.items[l.idx + 1][2]
         IN  Refill([l EXCEPT !.idx = @ + 1,
                              !.current_items = Append(@, obj),
                              !.in_flight_data = @ + TensorBytes(obj)])
    ELSE l

\* _drain: while in_flight_data >= threshold, popleft. popleft on an empty
\* deque raises IndexError (err).
RECURSIVE DrainLoop(_, _)
DrainLoop(l, drained) ==
    IF l.in_flight_data >= l.inflight_threshhold
    THEN IF l.current_items = <<>>
         THEN [l |-> l, drained |-> drained, err |-> TRUE]
         ELSE LET val == Head(l.current_items)
              IN  DrainLoop([l EXCEPT !.current_items = Tail(@),
                                     !.in_flight_data = @ - TensorBytes(val)],
                            Append(drained, val))
    ELSE [l |-> l, drained |-> drained, err |-> FALSE]

DrainMutDropFirst(l) ==
    LET d == DrainLoop(l, <<>>)
    IN  [d EXCEPT !.drained = IF @ = <<>> THEN @ ELSE Tail(@)]

Drain(l) == DrainLoop(l, <<>>)

\* start_loading: a no-op for the serial loader; the overlapping loader
\* returns if already started, else sorts by size and refills
StartLoading(l) ==
    IF l.kind = SERIAL \/ l.started THEN l
    ELSE Refill([l EXCEPT !.started = TRUE, !.items = SortAscBySize(@)])

\* The generator object returned by values(): phase is its position,
\* pending the rest of a `yield from drained`, in_finish / pos the position
\* inside `yield from self._finish()` (or inside the serial for loop), out
\* what it has yielded so far.
NoGen == [phase |-> "none", pending |-> <<>>, in_finish |-> FALSE, pos |-> 0,
          out |-> <<>>]

NewGen == [NoGen EXCEPT !.phase = "created"]

Yield(l, g, obj) == [l |-> l, g |-> [g EXCEPT !.phase = "running", !.out = Append(@, obj)]]

FinishStepMutSkip(l, g) ==
    [l |-> l, g |-> [g EXCEPT !.in_finish = TRUE, !.phase = "exhausted"]]

\* yield from self._finish(): the ready queue, front to back
FinishStep(l, g) ==
    IF g.pos < Len(l.current_items)
    THEN Yield(l, [g EXCEPT !.in_finish = TRUE, !.pos = @ + 1],
               l.current_items[g.pos + 1])
    ELSE [l |-> l, g |-> [g EXCEPT !.in_finish = TRUE, !.phase = "exhausted"]]

\* the head of `while not self._done:` up to the next yield
RECURSIVE LoopHead(_, _)
LoopHead(l, g) ==
    IF LoaderDone(l) THEN FinishStep(l, g)
    ELSE LET d == Drain(l)
         IN  IF d.err
             THEN [l |-> d.l, g |-> [g EXCEPT !.phase = "raised"]]
             ELSE LET l2 == Refill(d.l)
                  IN  IF d.drained = <<>>
                      THEN LoopHead(l2, g)
                      ELSE Yield(l2, [g EXCEPT !.pending = Tail(d.drained)],
                                 Head(d.drained))

\* _SerialCpuLoader.values: for _, obj in self.items: yield (tensor, obj)
SerialNext(l, g) ==
    IF g.pos < Len(l.items)
    THEN Yield(l, [g EXCEPT !.pos = @ + 1], l.items[g.pos + 1][2])
    ELSE [l |-> l, g |-> [g EXCEPT !.phase = "exhausted"]]

\* next() on the generator: run values() up to its next yield, its end or
\* the exception that leaves it
GenNext(l, g) ==
    IF l.kind = SERIAL THEN SerialNext(l, g)
    ELSE IF g.phase = "created" THEN LoopHead(StartLoading(l), g)
    ELSE IF g.in_finish THEN FinishStep(l, g)
    ELSE IF g.pending # <<>>
         THEN Yield(l, [g EXCEPT !.pending = Tail(@)], Head(g.pending))
    ELSE LoopHead(l, g)

\* for tensor, write_item in loader.values(): ... run to the end
RECURSIVE RunGen(_, _)
RunGen(l, g) ==
    IF g.phase \in {"exhausted", "raised"} THEN g
    ELSE LET n == GenNext(l, g) IN RunGen(n.l, n.g)

\* lines 256-264: which loader _write_files_from_queue constructs
ChooseLoader(cuda_available, inflight_threshhold) ==
    IF cuda_available /\ inflight_threshhold > 0
    THEN NewLoader(OVERLAPPING, inflight_threshhold)
    ELSE NewLoader(SERIAL, 0)

\* lines 266-269: add every array item of the bucket, then start_loading
RECURSIVE AddAll(_, _)
AddAll(l, tensor_w) ==
    IF tensor_w = <<>> THEN l
    ELSE AddAll(LoaderAdd(l, ItemSize(Head(tensor_w)), Head(tensor_w)).l,
                Tail(tensor_w))

\* the order in which loader.values() hands the bucket's array items to the
\* shard writer
StagedOrder(l0, tensor_w) == RunGen(StartLoading(AddAll(l0, tensor_w)), NewGen).out

---------------------------------------------------------------------------
(* The shard writer: _write_item and the body of _write_files_from_queue *)

TensorMagic == 255

\* torch.save(tensor, stream): a self-describing encoding, the magic byte,
\* the number of dimensions, the shape, then the raw bytes
TorchSave(shape, data) == <<TensorMagic, Len(shape)>> \o shape \o data

\* the bytes _write_item appends for one item
Serialize(write_item) ==
    IF write_item.type = BYTE_IO
    THEN ResolveData(write_item)
    ELSE TorchSave(write_item.size, ResolveData(write_item))

StorageInfo(relative_path, offset, length) ==
    [relative_path |-> relative_path, offset |-> offset, length |-> length]

WriteItemMutOffsetZero(stream, write_item, storage_key) ==
    LET after == stream \o Serialize(write_item)
    IN  [stream |-> after,
         result |-> [index |-> write_item.index,
                     size_in_bytes |-> Len(after) - Len(stream),
                     storage_data |-> StorageInfo(storage_key, 0,
                                                  Len(after) - Len(stream))]]

\* _write_item: offset = stream.tell(); write; length = stream.tell() - offset
WriteItemMutTell(stream, write_item, storage_key) ==
    LET offset == Len(stream)
        after  == stream \o Serialize(write_item)
    IN  [stream |-> after,
         result |-> [index |-> write_item.index, size_in_bytes |-> Len(after),
                     storage_data |-> StorageInfo(storage_key, offset, Len(after))]]

WriteItem(stream, write_item, storage_key) ==
    LET offset == Len(stream)
        after  == stream \o Serialize(write_item)
        length == Len(after) - offset
    IN  [stream |-> after,
         result |-> [index |-> write_item.index, size_in_bytes |-> length,
                     storage_data |-> StorageInfo(storage_key, offset, length)]]

\* the two for loops of lines 275-285 over an already ordered item list
RECURSIVE WriteAll(_, _, _, _)
WriteAll(stream, write_results, order, storage_key) ==
    IF order = <<>> THEN [stream |-> stream, write_results |-> write_results]
    ELSE LET w == WriteItem(stream, Head(order), storage_key)
         IN  WriteAll(w.stream, Append(write_results, w.result), Tail(order),
                      storage_key)

WriteOrderMutTensorsFirst(write_items, loader) ==
    StagedOrder(loader, TensorW(write_items)) \o BytesW(write_items)

\* blobs first, in bucket order, then the array items in the loader's order
WriteOrder(write_items, loader) ==
    BytesW(write_items) \o StagedOrder(loader, TensorW(write_items))

---------------------------------------------------------------------------
(* FileSystemWriter.write_data: file names, the work queue, the pool *)

DEFAULT_SUFFIX == ".distcp"
StoragePrefix  == "__0_"

GenFileMutNoCount(file_count) ==
    [prefix |-> StoragePrefix, count |-> 0, suffix |-> DEFAULT_SUFFIX]

\* gen_file: f"{storage_plan.prefix}{file_count}{DEFAULT_SUFFIX}"
GenFile(file_count) ==
    [prefix |-> StoragePrefix, count |-> file_count, suffix |-> DEFAULT_SUFFIX]

\* lines 366-373: one queue entry per bucket, or one per item
BucketsOf(single_file, bins, items) ==
    IF single_file THEN SplitBySizeAndType(bins, items)
    ELSE [k \in 1..Len(items) |-> <<items[k]>>]

QueueEntry(k, bucket) ==
    [file_name |-> GenFile(k - 1), storage_key |-> GenFile(k - 1),
     write_items |-> bucket]

BuildQueue(single_file, bins, items) ==
    LET buckets == BucketsOf(single_file, bins, items)
    IN  [k \in 1..Len(buckets) |-> QueueEntry(k, buckets[k])]

NoEntry == [file_name |-> GenFile(0), storage_key |-> GenFile(0), write_items |-> <<>>]

Threads == 0 .. (thread_count - 1)
Caller  == 0

NewThread == [pc |-> "unstarted", entry |-> NoEntry]
NoFile    == [exists |-> FALSE, bytes |-> <<>>, open |-> FALSE]

\* every file name one write_data call can generate within the bounds
MaxFiles  == IF MaxThreads > MaxItems THEN MaxThreads ELSE MaxItems
FileNames == { GenFile(k) : k \in 0..(MaxFiles - 1) }

\* write_data, lines 356-375: name the files and fill the work queue
WriteDataStart ==
    /\ wd.pc = "init" /\ ~crashed
    /\ LET q == BuildQueue(single_file_per_rank, thread_count, plan)
       IN  /\ file_queue' = q
           /\ hist' = [hist EXCEPT !.buckets = q]
    /\ result_queue' = <<>>
    /\ th' = [t \in Threads |-> NewThread]
    /\ wd' = [wd EXCEPT !.pc = "spawn", !.next = 1]
    /\ UNCHANGED <<splitVars, loaderVars, cfgVars, diskVars, fin, crashed, rd>>

\* lines 378-390: t.start() for the next worker thread
Spawn ==
    /\ wd.pc = "spawn" /\ ~crashed
    /\ wd.next < thread_count
    /\ th' = [th EXCEPT ![wd.next].pc = "get"]
    /\ wd' = [wd EXCEPT !.next = @ + 1]
    /\ UNCHANGED <<splitVars, loaderVars, cfgVars, file_queue, result_queue,
                   diskVars, restVars>>

\* line 392: the calling thread enters _write_files_from_queue itself
CallerRun ==
    /\ wd.pc = "spawn" /\ ~crashed
    /\ wd.next >= thread_count
    /\ th' = [th EXCEPT ![Caller].pc = "get"]
    /\ wd' = [wd EXCEPT !.pc = "work"]
    /\ UNCHANGED <<splitVars, loaderVars, cfgVars, file_queue, result_queue,
                   diskVars, restVars>>

\* file_queue.get_nowait(): the head of the queue, removed
QueuePopMutPeek(q) == [entry |-> Head(q), rest |-> q]

QueuePop(q) == [entry |-> Head(q), rest |-> Tail(q)]

\* lines 253-274 and the except clause of line 290: pop a bucket, build and
\* start its loader and open its file for writing ("wb" creates or
\* truncates); or return on queue.Empty. The calling thread then goes on to
\* join the workers.
WorkerGet(t) ==
    /\ th[t].pc = "get" /\ ~crashed
    /\ IF file_queue = <<>>
       THEN /\ th' = [th EXCEPT ![t].pc = "done"]
            /\ wd' = IF t = Caller THEN [wd EXCEPT !.pc = "join", !.joined = 1] ELSE wd
            /\ UNCHANGED <<file_queue, hist, files>>
       ELSE LET p == QueuePop(file_queue)
                key == p.entry.storage_key
            IN  /\ file_queue' = p.rest
                /\ th' = [th EXCEPT ![t].pc = "write", ![t].entry = p.entry]
                /\ files' = [files EXCEPT ![p.entry.file_name] =
                                 [exists |-> TRUE, bytes |-> <<>>, open |-> TRUE]]
                /\ hist' = [hist EXCEPT !.popped[key] = @ + 1,
                                        !.invoked[key] = @ + 1]
                /\ UNCHANGED wd
    /\ UNCHANGED <<splitVars, loaderVars, cfgVars, result_queue, dir_meta,
                   fin, crashed, rd>>

\* lines 275-289: write every item of the bucket, close the file and
\* result_queue.put(write_results)
WorkerWrite(t) ==
    /\ th[t].pc = "write" /\ ~crashed
    /\ LET e == th[t].entry
           order == WriteOrder(e.write_items,
                               ChooseLoader(cuda, per_thread_copy_ahead))
           w == WriteAll(files[e.file_name].bytes, <<>>, order, e.storage_key)
       IN  /\ files' = [files EXCEPT ![e.file_name].bytes = w.stream,
                                     ![e.file_name].open = FALSE]
           /\ result_queue' = Append(result_queue, w.write_results)
    /\ th' = [th EXCEPT ![t].pc = "get", ![t].entry = NoEntry]
    /\ UNCHANGED <<splitVars, loaderVars, cfgVars, file_queue, wd, dir_meta,
                   restVars>>

\* An I/O error inside the shard writer after k items were written: the
\* with statement closes the file and the exception leaves
\* _write_files_from_queue, which catches only queue.Empty. In a worker
\* thread it ends the thread; in the calling thread it leaves write_data.
\* At most one write fails in a run.
WorkerFail(t) ==
    /\ th[t].pc = "write" /\ ~crashed
    /\ hist.failed = {}
    /\ LET e == th[t].entry
           order == WriteOrder(e.write_items,
                               ChooseLoader(cuda, per_thread_copy_ahead))
       IN  \E k \in 0..Len(order) :
             LET w == WriteAll(files[e.file_name].bytes, <<>>,
                               SubSeq(order, 1, k), e.storage_key)
             IN  files' = [files EXCEPT ![e.file_name].bytes = w.stream,
                                        ![e.file_name].open = FALSE]
    /\ th' = [th EXCEPT ![t].pc = "dead", ![t].entry = NoEntry]
    /\ wd' = IF t = Caller THEN [wd EXCEPT !.pc = "raised"] ELSE wd
    /\ hist' = [hist EXCEPT !.failed = @ \cup {th[t].entry.storage_key}]
    /\ UNCHANGED <<splitVars, loaderVars, cfgVars, file_queue, result_queue,
                   dir_meta, fin, crashed, rd>>

JoinMutNoWait(t) ==
    /\ wd.pc = "join" /\ ~crashed
    /\ wd.joined = t
    /\ wd' = [wd EXCEPT !.joined = @ + 1]
    /\ UNCHANGED <<splitVars, loaderVars, cfgVars, file_queue, result_queue,
                   th, diskVars, restVars>>

\* lines 400-401: t.join() returns once thread t has ended
Join(t) ==
    /\ wd.pc = "join" /\ ~crashed
    /\ wd.joined = t
    /\ th[t].pc \in {"done", "dead"}
    /\ wd' = [wd EXCEPT !.joined = @ + 1]
    /\ UNCHANGED <<splitVars, loaderVars, cfgVars, file_queue, result_queue,
                   th, diskVars, restVars>>

\* line 406: res += result_queue.get_nowait()
DrainPop ==
    /\ wd.pc = "join" /\ ~crashed
    /\ wd.joined >= thread_count
    /\ result_queue # <<>>
    /\ wd' = [wd EXCEPT !.res = @ \o Head(result_queue), !.draining = TRUE]
    /\ result_queue' = Tail(result_queue)
    /\ UNCHANGED <<splitVars, loaderVars, cfgVars, file_queue, th, diskVars,
                   restVars>>

\* lines 407-412: queue.Empty ends the drain; the future holds res
Return ==
    /\ wd.pc = "join" /\ ~crashed
    /\ wd.joined >= thread_count
    /\ result_queue = <<>>
    /\ wd' = [wd EXCEPT !.pc = "returned", !.draining = TRUE]
    /\ UNCHANGED <<splitVars, loaderVars, cfgVars, file_queue, result_queue,
                   th, diskVars, restVars>>

---------------------------------------------------------------------------
(* FileSystemWriter.finish: the storage index and the metadata commit *)

MetadataPath == ".metadata"

MetadataTmpPathMutInPlace == ".metadata"

\* the file finish writes before the rename
MetadataTmpPath == ".metadata.tmp"

MetaNames == {".metadata", ".metadata.tmp"}
Absent    == [exists |-> FALSE, bytes |-> <<>>]

StorageMdMutDropLast(results) ==
    LET all == Flatten(results)
    IN  [i \in { all[k].index : k \in 1..(Len(all) - 1) } |->
            all[CHOOSE k \in 1..(Len(all) - 1) : all[k].index = i].storage_data]

\* lines 415-417: storage_md.update({wr.index: wr.storage_data ...}) for each
\* list in turn; a later result with the same index replaces the earlier one
StorageMd(results) ==
    LET all == Flatten(results)
        last(i) == CHOOSE k \in DOMAIN all :
                       /\ all[k].index = i
                       /\ \A j \in DOMAIN all : all[j].index = i => j <= k
    IN  [i \in { all[k].index : k \in DOMAIN all } |-> all[last(i)].storage_data]

\* pickle.dump(metadata): one SETITEM per key, then the STOP opcode that ends
\* every pickle
StopOp == [op |-> "STOP", key |-> 0, val |-> StorageInfo(GenFile(0), 0, 0)]

RECURSIVE DumpKeys(_, _)
DumpKeys(md, keys) ==
    IF keys = {} THEN <<>>
    ELSE LET k == CHOOSE x \in keys : \A y \in keys : x <= y
         IN  <<[op |-> "SETITEM", key |-> k, val |-> md[k]]>>
                 \o DumpKeys(md, keys \ {k})

PickleDump(md) == DumpKeys(md, DOMAIN md) \o <<StopOp>>

\* pickle.load: fails on a stream that does not end with STOP
PickleLoad(bytes) ==
    IF bytes = <<>> \/ bytes[Len(bytes)].op # "STOP"
    THEN [ok |-> FALSE, storage_data |-> <<>>]
    ELSE LET n == Len(bytes) - 1
             at(i) == CHOOSE k \in 1..n : bytes[k].key = i
         IN  [ok |-> TRUE,
              storage_data |-> [i \in { bytes[k].key : k \in 1..n } |-> bytes[at(i)].val]]

\* the metadata of an earlier, complete checkpoint of no items
PrevMetadata == [exists |-> TRUE, bytes |-> PickleDump(<<>>)]

\* Path.rename: the source replaces the destination in one step
Rename(d, src, dst) ==
    IF src = dst THEN d
    ELSE [d EXCEPT ![dst] = d[src], ![src] = Absent]

\* lines 415-419: build the index, open the temporary file ("wb")
FinishOpen ==
    /\ wd.pc = "returned" /\ fin.pc = "idle" /\ ~crashed
    /\ fin' = [pc |-> "dump", results |-> <<wd.res>>,
               pickled |-> PickleDump(StorageMd(<<wd.res>>))]
    /\ dir_meta' = [dir_meta EXCEPT ![MetadataTmpPath] = [exists |-> TRUE, bytes |-> <<>>]]
    /\ UNCHANGED <<splitVars, loaderVars, cfgVars, poolVars, files, crashed, rd, hist>>

\* line 420: pickle.dump reaches the file one write at a time
FinishDump ==
    /\ fin.pc = "dump" /\ ~crashed
    /\ Len(dir_meta[MetadataTmpPath].bytes) < Len(fin.pickled)
    /\ dir_meta' = [dir_meta EXCEPT ![MetadataTmpPath].bytes =
                        Append(@, fin.pickled[Len(@) + 1])]
    /\ UNCHANGED <<splitVars, loaderVars, cfgVars, poolVars, files, fin, crashed,
                   rd, hist>>

\* lines 421-424: fsync, close, rename onto .metadata
FinishRename ==
    /\ fin.pc = "dump" /\ ~crashed
    /\ Len(dir_meta[MetadataTmpPath].bytes) = Len(fin.pickled)
    /\ dir_meta' = Rename(dir_meta, MetadataTmpPath, MetadataPath)
    /\ fin' = [fin EXCEPT !.pc = "done"]
    /\ UNCHANGED <<splitVars, loaderVars, cfgVars, poolVars, files, crashed, rd, hist>>

\* the process is killed at some point between the opening of the temporary
\* file and the rename: no step of the writer follows
Crash ==
    /\ ~crashed
    /\ fin.pc = "dump"
    /\ crashed' = TRUE
    /\ UNCHANGED <<splitVars, loaderVars, cfgVars, poolVars, diskVars, fin, rd, hist>>

---------------------------------------------------------------------------
(* FileSystemReader *)

\* torch.load: decode what TorchSave wrote; fails on anything else
TorchLoad(bytes) ==
    IF Len(bytes) < 2 \/ bytes[1] # TensorMagic \/ Len(bytes) < 2 + bytes[2]
    THEN [ok |-> FALSE, shape |-> <<>>, data |-> <<>>]
    ELSE LET ndim  == bytes[2]
             shape == SubSeq(bytes, 3, 2 + ndim)
             data  == SubSeq(bytes, 3 + ndim, Len(bytes))
         IN  [ok |-> Len(data) = SeqProd(shape), shape |-> shape, data |-> data]

\* narrow_tensor_by_index on a one-dimensional tensor: narrow only when the
\* requested length is smaller than the tensor
Narrow(t, offsets, sizes) ==
    IF sizes[1] < t.shape[1]
    THEN [shape |-> <<sizes[1]>>,
          data |-> SubSeq(t.data, offsets[1] + 1, offsets[1] + sizes[1])]
    ELSE [shape |-> t.shape, data |-> t.data]

\* _slice_file / _create_file_view: the bytes [offset, offset + length)
SliceFileMutNoOffset(bytes, sinfo) == SubSeq(bytes, 1, sinfo.length)

SliceFile(bytes, sinfo) == SubSeq(bytes, sinfo.offset + 1, sinfo.offset + sinfo.length)

RECURSIVE PerFileMutNoGroup(_, _, _)
PerFileMutNoGroup(items, storage_data, seen) ==
    IF items = <<>> THEN <<>>
    ELSE <<storage_data[Head(items).storage_index].relative_path>>
            \o PerFileMutNoGroup(Tail(items), storage_data, seen)

\* lines 440-444: group the requests by file, files in order of first use
RECURSIVE PerFile(_, _, _)
PerFile(items, storage_data, seen) ==
    IF items = <<>> THEN <<>>
    ELSE LET path == storage_data[Head(items).storage_index].relative_path
         IN  IF path \in seen THEN PerFile(Tail(items), storage_data, seen)
             ELSE <<path>> \o PerFile(Tail(items), storage_data, seen \cup {path})

SizesMatchMutAtLeast(target_size, tensor_size) == target_size[1] >= tensor_size[1]

\* lines 465-467: assert target_tensor.size() == tensor.size()
SizesMatch(target_size, tensor_size) == target_size = tensor_size

\* lines 449-469: serve the requests of one open file in turn; a failed
\* assertion or decode ends read_data before copy_ and commit_tensor
RECURSIVE ServeReqs(_, _, _, _)
ServeReqs(reqs, bytes, storage_data, sink) ==
    IF reqs = <<>> THEN [sink |-> sink, err |-> FALSE]
    ELSE LET req == Head(reqs)
             item_md == storage_data[req.storage_index]
             file_slice == SliceFile(bytes, item_md)
         IN  IF req.type = BYTE_IO
             THEN ServeReqs(Tail(reqs), bytes, storage_data,
                            Append(sink, [req |-> req, shape |-> <<Len(file_slice)>>,
                                          data |-> file_slice]))
             ELSE LET loaded == TorchLoad(file_slice)
                      tensor == Narrow(loaded, req.storage_offsets, req.lengths)
                  IN  IF ~loaded.ok \/ ~SizesMatch(req.dest_shape, tensor.shape)
                      THEN [sink |-> sink, err |-> TRUE]
                      ELSE ServeReqs(Tail(reqs), bytes, storage_data,
                                     Append(sink, [req |-> req, shape |-> tensor.shape,
                                                   data |-> tensor.data]))

\* lines 446-447: open each file of the grouping once and serve its requests
RECURSIVE ServeFiles(_, _, _, _, _, _)
ServeFiles(paths, items, storage_data, fs, sink, opened) ==
    IF paths = <<>> THEN [sink |-> sink, opened |-> opened, err |-> FALSE]
    ELSE LET path == Head(paths)
             reqs == SelectSeq(items,
                         LAMBDA r : storage_data[r.storage_index].relative_path = path)
         IN  IF ~fs[path].exists
             THEN [sink |-> sink, opened |-> opened, err |-> TRUE]
             ELSE LET s == ServeReqs(reqs, fs[path].bytes, storage_data, sink)
                  IN  IF s.err
                      THEN [sink |-> s.sink, opened |-> Append(opened, path), err |-> TRUE]
                      ELSE ServeFiles(Tail(paths), items, storage_data, fs, s.sink,
                                      Append(opened, path))

ReadDataRun(items, storage_data, fs) ==
    ServeFiles(PerFile(items, storage_data, {}), items, storage_data, fs, <<>>, <<>>)

\* the write item of the plan an identity names
ItemOf(i) == CHOOSE w \in Range(plan) : w.index = i

\* the requests a load planner makes for item i: the whole item; for an
\* array of two or more elements everything but the first element; and for
\* an array the whole item into a destination one element too long
Requests(i) ==
    LET w == ItemOf(i)
        whole == [storage_index |-> i, type |-> w.type, storage_offsets |-> <<0>>,
                  lengths |-> w.size, dest_shape |-> w.size]
        part  == [storage_index |-> i, type |-> w.type, storage_offsets |-> <<1>>,
                  lengths |-> <<w.size[1] - 1>>, dest_shape |-> <<w.size[1] - 1>>]
        long  == [whole EXCEPT !.dest_shape = <<w.size[1] + 1>>]
    IN  IF w.type = TENSOR
        THEN IF w.size[1] >= 2 THEN {whole, part, long} ELSE {whole, long}
        ELSE {whole}

MaxReads == 1

ReadPlans(storage_data) ==
    LET reqs == UNION { Requests(i) : i \in DOMAIN storage_data }
    IN  UNION { [1..n -> reqs] : n \in 0..MaxReads }

NewReader == [pc |-> "idle", metadata |-> <<>>, storage_data |-> <<>>,
              items |-> <<>>, sink |-> <<>>, opened |-> <<>>]

\* read_metadata: open .metadata and unpickle it
ReadMetadata ==
    /\ rd.pc = "idle"
    /\ fin.pc # "idle" \/ crashed
    /\ LET f == dir_meta[MetadataPath]
           m == PickleLoad(f.bytes)
       IN  rd' = IF ~f.exists THEN [rd EXCEPT !.pc = "no_file"]
                 ELSE IF ~m.ok THEN [rd EXCEPT !.pc = "unpickle_error"]
                 ELSE [rd EXCEPT !.pc = "loaded", !.metadata = m.storage_data]
    /\ UNCHANGED <<splitVars, loaderVars, cfgVars, poolVars, diskVars, fin,
                   crashed, hist>>

\* set_up_storage_reader
SetUpStorageReader ==
    /\ rd.pc = "loaded"
    /\ rd' = [rd EXCEPT !.pc = "ready", !.storage_data = rd.metadata]
    /\ UNCHANGED <<splitVars, loaderVars, cfgVars, poolVars, diskVars, fin,
                   crashed, hist>>

\* read_data over one load plan
ReadData ==
    /\ rd.pc = "ready"
    /\ \E items \in ReadPlans(rd.storage_data) :
         LET r == ReadDataRun(items, rd.storage_data, files)
         IN  rd' = [rd EXCEPT !.pc = IF r.err THEN "read_error" ELSE "done",
                              !.items = items, !.sink = r.sink, !.opened = r.opened]
    /\ UNCHANGED <<splitVars, loaderVars, cfgVars, poolVars, diskVars, fin,
                   crashed, hist>>

---------------------------------------------------------------------------
(* The checkpoint specification *)

NotSplit   == [done |-> FALSE, buckets |-> <<>>]
IdleSplit  == sp_bins = 0 /\ sp_items = <<>> /\ sp_out = NotSplit

\* the last call made on the loader: whether start_loading or values had
\* been called before it (after_start), whether it raised, the items before
\* it; staging: start_loading or values has been called; late: an add went
\* through after that
NoCall == [op |-> "none", staging |-> FALSE, after_start |-> FALSE,
           raised |-> FALSE, before |-> <<>>, late |-> FALSE]
IdleLoader == ld = NoLoader /\ gen = NoGen /\ ld_call = NoCall

NewWriteData == [pc |-> "init", next |-> 0, joined |-> 0, res |-> <<>>,
                 draining |-> FALSE]

InitCheckpoint(plans) ==
    /\ plan \in plans
    /\ thread_count \in 1..MaxThreads
    /\ single_file_per_rank \in BOOLEAN
    /\ cuda = TRUE
    /\ per_thread_copy_ahead \in {0, MaxSize}
    /\ file_queue = <<>> /\ result_queue = <<>>
    /\ th = [t \in Threads |-> NewThread]
    /\ wd = NewWriteData
    /\ files = [n \in FileNames |-> NoFile]
    /\ dir_meta = [n \in MetaNames |-> IF n = MetadataPath THEN PrevMetadata ELSE Absent]
    /\ fin = [pc |-> "idle", results |-> <<>>, pickled |-> <<>>]
    /\ crashed = FALSE
    /\ rd = NewReader
    /\ hist = [buckets |-> <<>>, popped |-> [n \in FileNames |-> 0],
               invoked |-> [n \in FileNames |-> 0], failed |-> {},
               meta0 |-> dir_meta[MetadataPath]]

Init == IdleSplit /\ IdleLoader /\ InitCheckpoint(Plans)

Next ==
    \/ WriteDataStart
    \/ Spawn
    \/ CallerRun
    \/ \E t \in Threads : WorkerGet(t)
    \/ \E t \in Threads : WorkerWrite(t)
    \/ \E t \in Threads : WorkerFail(t)
    \/ \E t \in Threads : Join(t)
    \/ DrainPop
    \/ Return
    \/ FinishOpen
    \/ FinishDump
    \/ FinishRename
    \/ Crash
    \/ ReadMetadata
    \/ SetUpStorageReader
    \/ ReadData

Spec == Init /\ [][Next]_vars

\* Spec from plans in which two items may carry the same identity
DupPlans ==
    { [k \in 1..MaxItems |-> MkItem(f[k][1], f[k][2], MaxSize)] :
        f \in [1..MaxItems -> (1..MaxItems) \X ItemTypes] }

InitDup == IdleSplit /\ IdleLoader /\ InitCheckpoint(DupPlans)

SpecDup == InitDup /\ [][Next]_vars

---------------------------------------------------------------------------
(* write_data alone, over plans that also hold empty blobs and empty arrays *)

ShardPlans ==
    UNION { { [k \in 1..n |-> MkItem(k, f[k][1], f[k][2])] :
                f \in [1..n -> ({BYTE_IO} \X {0, MaxSize})
                                  \cup ({TENSOR} \X (0..MaxSize))] } :
            n \in 0..MaxItems }

InitShard == IdleSplit /\ IdleLoader /\ InitCheckpoint(ShardPlans)

NextShard ==
    \/ WriteDataStart
    \/ Spawn
    \/ CallerRun
    \/ \E t \in Threads : WorkerGet(t)
    \/ \E t \in Threads : WorkerWrite(t)
    \/ \E t \in Threads : WorkerFail(t)
    \/ \E t \in Threads : Join(t)
    \/ DrainPop
    \/ Return

SpecShard == InitShard /\ [][NextShard]_vars

---------------------------------------------------------------------------
(* The reader alone, on a committed checkpoint, with longer load plans *)

MaxPlanReads == 3

\* the directory after write_data and finish ran without failure: every
\* bucket written to its file, the batches collected in queue order
ShardOf(e) ==
    WriteAll(<<>>, <<>>,
             WriteOrder(e.write_items, ChooseLoader(cuda, per_thread_copy_ahead)),
             e.storage_key)

WrittenFiles(q) ==
    [n \in FileNames |->
        IF \E k \in DOMAIN q : q[k].file_name = n
        THEN [exists |-> TRUE,
              bytes |-> ShardOf(q[CHOOSE k \in DOMAIN q : q[k].file_name = n]).stream,
              open |-> FALSE]
        ELSE NoFile]

CollectedResults(q) == Flatten([k \in DOMAIN q |-> ShardOf(q[k]).write_results])

InitReader ==
    /\ IdleSplit /\ IdleLoader
    /\ plan \in Plans
    /\ thread_count \in 1..MaxThreads
    /\ single_file_per_rank \in BOOLEAN
    /\ cuda = TRUE
    /\ per_thread_copy_ahead \in {0, MaxSize}
    /\ file_queue = <<>> /\ result_queue = <<>>
    /\ th = [t \in Threads |-> [pc |-> "done", entry |-> NoEntry]]
    /\ LET q   == BuildQueue(single_file_per_rank, thread_count, plan)
           res == CollectedResults(q)
           pickled == PickleDump(StorageMd(<<res>>))
       IN  /\ wd = [pc |-> "returned", next |-> thread_count, joined |-> thread_count,
                    res |-> res, draining |-> TRUE]
           /\ files = WrittenFiles(q)
           /\ fin = [pc |-> "done", results |-> <<res>>, pickled |-> pickled]
           /\ dir_meta = [n \in MetaNames |->
                             IF n = MetadataPath
                             THEN [exists |-> TRUE, bytes |-> pickled] ELSE Absent]
           /\ hist = [buckets |-> q,
                      popped |-> [n \in FileNames |->
                                    IF \E k \in DOMAIN q : q[k].file_name = n THEN 1 ELSE 0],
                      invoked |-> [n \in FileNames |->
                                    IF \E k \in DOMAIN q : q[k].file_name = n THEN 1 ELSE 0],
                      failed |-> {}, meta0 |-> PrevMetadata]
    /\ crashed = FALSE
    /\ rd = NewReader

\* load plans of up to MaxPlanReads requests, each with a destination of the
\* requested shape
LongReadPlans(storage_data) ==
    LET reqs == { r \in UNION { Requests(i) : i \in DOMAIN storage_data } :
                    r.dest_shape = r.lengths }
    IN  UNION { [1..n -> reqs] : n \in 0..MaxPlanReads }

\* read_data over one of these plans
ReadDataLong ==
    /\ rd.pc = "ready"
    /\ \E items \in LongReadPlans(rd.storage_data) :
         LET r == ReadDataRun(items, rd.storage_data, files)
         IN  rd' = [rd EXCEPT !.pc = IF r.err THEN "read_error" ELSE "done",
                              !.items = items, !.sink = r.sink, !.opened = r.opened]
    /\ UNCHANGED <<splitVars, loaderVars, cfgVars, poolVars, diskVars, fin,
                   crashed, hist>>

NextReader == ReadMetadata \/ SetUpStorageReader \/ ReadDataLong

SpecReader == InitReader /\ [][NextReader]_vars

---------------------------------------------------------------------------
(* The bucketer applied to bounded inputs *)

IdleCheckpoint ==
    /\ plan = <<>> /\ thread_count = 1 /\ single_file_per_rank = TRUE
    /\ per_thread_copy_ahead = 0 /\ cuda = TRUE
    /\ file_queue = <<>> /\ result_queue = <<>>
    /\ th = [t \in Threads |-> NewThread]
    /\ wd = NewWriteData
    /\ files = [n \in FileNames |-> NoFile]
    /\ dir_meta = [n \in MetaNames |-> Absent]
    /\ fin = [pc |-> "idle", results |-> <<>>, pickled |-> <<>>]
    /\ crashed = FALSE
    /\ rd = NewReader
    /\ hist = [buckets |-> <<>>, popped |-> [n \in FileNames |-> 0],
               invoked |-> [n \in FileNames |-> 0], failed |-> {},
               meta0 |-> Absent]

InitSplit ==
    /\ sp_bins \in 1..MaxBins
    /\ sp_items \in ItemSeqsUpTo(MaxSplitItems, 0)
    /\ sp_out = NotSplit
    /\ IdleLoader /\ IdleCheckpoint

\* _split_by_size_and_type(bins, items)
Split ==
    /\ ~sp_out.done
    /\ sp_out' = [done |-> TRUE, buckets |-> SplitBySizeAndType(sp_bins, sp_items)]
    /\ UNCHANGED <<sp_bins, sp_items, loaderVars, ckptVars>>

NextSplit == Split

SpecSplit == InitSplit /\ [][NextSplit]_vars

---------------------------------------------------------------------------
(* One loader object driven through its interface *)

InitLoader ==
    /\ ld \in {NewLoader(SERIAL, 0)}
                \cup { NewLoader(OVERLAPPING, n) : n \in 0..MaxThreshold }
    /\ gen = NoGen
    /\ ld_call = NoCall
    /\ IdleSplit /\ IdleCheckpoint

\* loader.add(_item_size(obj), obj) for a new array item
LdAdd ==
    /\ Len(ld.items) < MaxLoaderItems
    /\ \E n \in 0..MaxSize :
         LET obj == MkItem(Len(ld.items) + 1, TENSOR, n)
             r   == LoaderAdd(ld, ItemSize(obj), obj)
         IN  /\ ld' = r.l
             /\ ld_call' = [ld_call EXCEPT !.op = "add",
                                !.after_start = ld_call.staging,
                                !.raised = r.raised,
                                !.before = ld.items,
                                !.late = @ \/ (ld_call.staging /\ ~r.raised)]
    /\ UNCHANGED <<splitVars, gen, ckptVars>>

\* loader.start_loading()
LdStartLoading ==
    /\ ld' = StartLoading(ld)
    /\ ld_call' = [ld_call EXCEPT !.op = "start_loading", !.staging = TRUE,
                        !.after_start = ld_call.staging, !.raised = FALSE,
                        !.before = ld.items]
    /\ UNCHANGED <<splitVars, gen, ckptVars>>

\* loader.values(): a generator function, so the call only creates the
\* generator; its body starts at the first next()
LdValues ==
    /\ gen.phase = "none"
    /\ gen' = NewGen
    /\ ld_call' = [ld_call EXCEPT !.op = "values", !.staging = TRUE,
                        !.after_start = ld_call.staging, !.raised = FALSE,
                        !.before = ld.items]
    /\ UNCHANGED <<splitVars, ld, ckptVars>>

\* next() on the generator
LdNext ==
    /\ gen.phase \in {"created", "running"}
    /\ LET n == GenNext(ld, gen)
       IN  /\ ld' = n.l
           /\ gen' = n.g
           /\ ld_call' = [ld_call EXCEPT !.op = "next", !.after_start = TRUE,
                               !.raised = (n.g.phase = "raised"),
                               !.before = ld.items]
    /\ UNCHANGED <<splitVars, ckptVars>>

NextLoader == LdAdd \/ LdStartLoading \/ LdValues \/ LdNext

SpecLoader == InitLoader /\ [][NextLoader]_vars

---------------------------------------------------------------------------
(* Properties *)

\* out holds every object of items exactly once and nothing else
YieldsEachOnce(out, items) ==
    /\ Len(out) = Len(items)
    /\ \A k \in DOMAIN items : Count(out, items[k][2]) = 1

\* every result batch produced so far, queued or already drained
AllResults == Flatten(result_queue) \o wd.res

\* the buckets whose shard writer ran to the end
Written(e) ==
    /\ hist.invoked[e.storage_key] >= 1
    /\ files[e.file_name].exists /\ ~files[e.file_name].open
    /\ e.storage_key \notin hist.failed

\* what the serial loader would make the shard writer produce for a bucket
SerialShard(e) ==
    WriteAll(<<>>, <<>>, WriteOrder(e.write_items, NewLoader(SERIAL, 0)), e.storage_key)

ResultsOf(key) == SelectSeq(AllResults, LAMBDA wr : wr.storage_data.relative_path = key)

\* C1: every bucket is popped from the work queue at most once and the shard
\* writer runs at most once for it at any time; when write_data returns every
\* bucket was popped and written exactly once; and when no writer failed the
\* returned list holds exactly one WriteResult per item of the plan.
C1_PoolExactlyOnce ==
    /\ \A n \in FileNames : hist.popped[n] <= 1 /\ hist.invoked[n] <= 1
    /\ wd.pc = "returned" =>
         /\ \A k \in DOMAIN hist.buckets :
               /\ hist.popped[hist.buckets[k].storage_key] = 1
               /\ hist.invoked[hist.buckets[k].storage_key] = 1
         /\ \A n \in FileNames :
               hist.popped[n] = 1 => \E k \in DOMAIN hist.buckets :
                                        hist.buckets[k].storage_key = n
         /\ hist.failed = {} =>
               /\ Len(wd.res) = Len(plan)
               /\ \A i \in DOMAIN plan :
                     Cardinality({ k \in DOMAIN wd.res :
                                     wd.res[k].index = plan[i].index }) = 1

\* two threads each wrote a file and the worker's batch came first
C1_Witness ==
    /\ wd.pc = "returned" /\ hist.failed = {}
    /\ thread_count = 2 /\ ~single_file_per_rank
    /\ Len(wd.res) = 2 /\ wd.res[1].index = 2

\* C2: if the shard writer fails for any bucket on any pool thread,
\* write_data does not complete with a result list, finish is not reached
\* and .metadata is not replaced.
C2_FailedWriteBlocksCommit ==
    hist.failed # {} =>
        /\ wd.pc # "returned"
        /\ fin.pc = "idle"
        /\ dir_meta[MetadataPath] = hist.meta0

\* C3: at every point of finish, a crash included, .metadata is the previous
\* complete metadata or the new complete metadata; before the rename it is
\* the previous one; a reader never unpickles a partial file.
C3_MetadataCommitAtomic ==
    /\ dir_meta[MetadataPath] \in
          {hist.meta0} \cup (IF fin.pc = "idle" THEN {}
                             ELSE {[exists |-> TRUE, bytes |-> fin.pickled]})
    /\ fin.pc # "done" => dir_meta[MetadataPath] = hist.meta0
    /\ dir_meta[MetadataPath].exists => PickleLoad(dir_meta[MetadataPath].bytes).ok
    /\ rd.pc # "unpickle_error"
    /\ rd.pc \in {"loaded", "ready", "done", "read_error"} =>
          rd.metadata \in {PickleLoad(hist.meta0.bytes).storage_data,
                           StorageMd(fin.results)}

\* the process died with the temporary file half written and a reader then
\* loaded the previous metadata
C3_Witness ==
    /\ crashed /\ fin.pc = "dump"
    /\ Len(dir_meta[MetadataTmpPath].bytes) > 0
    /\ Len(dir_meta[MetadataTmpPath].bytes) < Len(fin.pickled)
    /\ rd.pc = "loaded"
    /\ rd.metadata = PickleLoad(hist.meta0.bytes).storage_data

\* C4 as stated: for both loaders and every threshold, zero included,
\* values() does not fail and, once exhausted, has yielded every added item
\* exactly once (items added before staging started).
C4_ValuesYieldsAllAnyThreshold ==
    ~ld_call.late =>
        /\ gen.phase # "raised"
        /\ gen.phase = "exhausted" => YieldsEachOnce(gen.out, ld.items)

PositiveThreshold == ld.kind = SERIAL \/ ld.inflight_threshhold > 0

\* C4 amended: for the serial loader, and for the overlapping loader with a
\* positive threshold, values() never fails, never yields an item twice or
\* more items than were added, and has yielded every added item exactly once
\* when exhausted; and it terminates: every next() either yields one more
\* item or ends the sequence, so a sequence over n items ends within n + 1
\* calls.
C4_ValuesYieldsAllPositiveThreshold ==
    /\ [](PositiveThreshold =>
            /\ gen.phase # "raised"
            /\ ~ld_call.late =>
                 /\ Len(gen.out) <= Len(ld.items)
                 /\ \A k \in DOMAIN gen.out : Count(gen.out, gen.out[k]) = 1
                 /\ gen.phase = "exhausted" => YieldsEachOnce(gen.out, ld.items))
    /\ [][(PositiveThreshold /\ gen.phase \in {"created", "running"} /\ gen' # gen) =>
             \/ gen'.phase = "exhausted" /\ gen'.out = gen.out
             \/ gen'.phase = "running" /\ Len(gen'.out) = Len(gen.out) + 1]_vars

\* the overlapping loader went through drain and refill and ended, with an
\* item of size zero and an item larger than the threshold among three
C4_Witness ==
    /\ ld.kind = OVERLAPPING /\ ld.inflight_threshhold = 1
    /\ gen.phase = "exhausted" /\ ~ld_call.late
    /\ Len(gen.out) = 3
    /\ \E k \in DOMAIN gen.out : ItemSize(gen.out[k]) = 0
    /\ \E k \in DOMAIN gen.out : ItemSize(gen.out[k]) > ld.inflight_threshhold
    /\ gen.out[1].index # 1

\* C5 as stated: the file of every written bucket is byte for byte the file
\* the serial loader produces for that bucket.
C5_SameBytesAsSerial ==
    \A k \in DOMAIN hist.buckets :
        Written(hist.buckets[k]) =>
            files[hist.buckets[k].file_name].bytes = SerialShard(hist.buckets[k]).stream

NonDecreasing(items) ==
    \A i, j \in DOMAIN items : i < j => ItemSize(items[i]) <= ItemSize(items[j])

\* C5 amended: under either strategy the file of a written bucket has the
\* length of the serial file and holds the same items with the same lengths
\* and the same serialized bytes, the blobs at the same offsets; the array
\* items are at the same offsets, and the file is byte for byte the same,
\* when the bucket's array items are in non-decreasing size order.
C5_SameItemsAsSerial ==
    \A k \in DOMAIN hist.buckets :
        LET e   == hist.buckets[k]
            ser == SerialShard(e)
            act == ResultsOf(e.storage_key)
            bytes == files[e.file_name].bytes
        IN  (Written(e) /\ act # <<>>) =>
              /\ Len(bytes) = Len(ser.stream)
              /\ Len(act) = Len(ser.write_results)
              /\ \A i \in DOMAIN ser.write_results :
                    \E j \in DOMAIN act :
                       /\ act[j].index = ser.write_results[i].index
                       /\ act[j].size_in_bytes = ser.write_results[i].size_in_bytes
                       /\ SliceFile(bytes, act[j].storage_data)
                             = SliceFile(ser.stream, ser.write_results[i].storage_data)
                       /\ e.write_items[CHOOSE m \in DOMAIN e.write_items :
                              e.write_items[m].index = act[j].index].type = BYTE_IO
                            => act[j] = ser.write_results[i]
              /\ NonDecreasing(TensorW(e.write_items)) =>
                    bytes = ser.stream /\ act = ser.write_results

\* the overlapped loader wrote a file that differs from the serial one
C5_Witness ==
    /\ ChooseLoader(cuda, per_thread_copy_ahead).kind = OVERLAPPING
    /\ \E k \in DOMAIN hist.buckets :
          /\ Written(hist.buckets[k])
          /\ ResultsOf(hist.buckets[k].storage_key) # <<>>
          /\ files[hist.buckets[k].file_name].bytes # SerialShard(hist.buckets[k]).stream

\* C6: _split_by_size_and_type returns exactly N lists that partition the
\* input: every input item is in exactly one list exactly once and no list
\* holds anything else.
C6_SplitPartitions ==
    sp_out.done =>
        /\ Len(sp_out.buckets) = sp_bins
        /\ Len(Flatten(sp_out.buckets)) = Len(sp_items)
        /\ \A k \in DOMAIN sp_items : Count(Flatten(sp_out.buckets), sp_items[k]) = 1
        /\ Range(Flatten(sp_out.buckets)) \subseteq Range(sp_items)

\* three items of both kinds split over two or more buckets
C6_Witness ==
    /\ sp_out.done /\ sp_bins >= 2 /\ Len(sp_items) = 3
    /\ BytesW(sp_items) # <<>> /\ TensorW(sp_items) # <<>>
    /\ \E b \in DOMAIN sp_out.buckets : Len(sp_out.buckets[b]) >= 2

\* C7: the locators recorded for one file are pairwise disjoint byte ranges,
\* each inside the file, and their lengths sum to no more than its length.
RECURSIVE SumLengths(_)
SumLengths(rs) ==
    IF rs = <<>> THEN 0 ELSE Head(rs).storage_data.length + SumLengths(Tail(rs))

C7_LocatorsDisjoint ==
    /\ \A i, j \in DOMAIN AllResults :
          LET a == AllResults[i].storage_data
              b == AllResults[j].storage_data
          IN  (i # j /\ a.relative_path = b.relative_path) =>
                 \/ a.offset + a.length <= b.offset
                 \/ b.offset + b.length <= a.offset
    /\ \A i \in DOMAIN AllResults :
          LET a == AllResults[i].storage_data
          IN  /\ a.offset >= 0 /\ a.length >= 0
              /\ a.offset + a.length <= Len(files[a.relative_path].bytes)
    /\ \A n \in FileNames : SumLengths(ResultsOf(n)) <= Len(files[n].bytes)

\* one file holds a blob and an array, the second at a non-zero offset
C7_Witness ==
    \E i, j \in DOMAIN AllResults :
        /\ i # j
        /\ AllResults[i].storage_data.relative_path = AllResults[j].storage_data.relative_path
        /\ AllResults[i].storage_data.offset = 0
        /\ AllResults[j].storage_data.offset > 0
        /\ ItemOf(AllResults[i].index).type = BYTE_IO
        /\ ItemOf(AllResults[j].index).type = TENSOR

HasDuplicate(results) ==
    \E i, j \in DOMAIN Flatten(results) :
        i # j /\ Flatten(results)[i].index = Flatten(results)[j].index

\* C8: when two WriteResults handed to finish carry the same identity,
\* finish raises and neither writes the temporary file nor replaces
\* .metadata.
C8_DuplicateIdentityRaises ==
    (fin.pc # "idle" /\ HasDuplicate(fin.results)) =>
        /\ fin.pc = "raised"
        /\ ~dir_meta[MetadataTmpPath].exists
        /\ dir_meta[MetadataPath] = hist.meta0

\* C9: for either loader, an add made after start_loading or values was
\* called raises and leaves the registered items unchanged.
C9_AddAfterStartFails ==
    (ld_call.op = "add" /\ ld_call.after_start) =>
        /\ ld_call.raised
        /\ ld.items = ld_call.before

\* the payload a request for item i must deliver
Expected(req) ==
    LET w == ItemOf(req.storage_index)
    IN  IF req.lengths = w.size THEN ResolveData(w)
        ELSE SubSeq(ResolveData(w), req.storage_offsets[1] + 1,
                    req.storage_offsets[1] + req.lengths[1])

\* C10: after write_data, finish, read_metadata and set_up_storage_reader,
\* the bytes at every item's locator are that item's serialization, and
\* read_data, given destinations of the requested shapes, serves every
\* request of its plan, in full, with the payload supplied for that item at
\* write time.
C10_RoundTrip ==
    /\ rd.pc \in {"ready", "done", "read_error"} =>
          \A i \in DOMAIN rd.storage_data :
              SliceFile(files[rd.storage_data[i].relative_path].bytes, rd.storage_data[i])
                  = Serialize(ItemOf(i))
    /\ rd.pc = "read_error" =>
          \E k \in DOMAIN rd.items : rd.items[k].dest_shape # rd.items[k].lengths
    /\ (rd.pc \in {"done", "read_error"}
           /\ \A k \in DOMAIN rd.items : rd.items[k].dest_shape = rd.items[k].lengths) =>
          rd.pc = "done"
    /\ rd.pc = "done" =>
          /\ Len(rd.sink) = Len(rd.items)
          /\ \A k \in DOMAIN rd.sink :
                /\ rd.sink[k].req \in Range(rd.items)
                /\ rd.sink[k].data = Expected(rd.sink[k].req)
                /\ rd.sink[k].shape = rd.sink[k].req.dest_shape

\* with two threads, a whole array item stored behind a blob was read back
C10_Witness ==
    /\ rd.pc = "done" /\ thread_count = 2
    /\ \E k \in DOMAIN rd.sink :
          /\ rd.sink[k].req.type = TENSOR
          /\ rd.sink[k].req.lengths = ItemOf(rd.sink[k].req.storage_index).size
          /\ rd.storage_data[rd.sink[k].req.storage_index].offset > 0
          /\ rd.sink[k].data = ResolveData(ItemOf(rd.sink[k].req.storage_index))

\* the threads that hold file n open for writing
Writers(n) == { t \in Threads : th[t].pc = "write" /\ th[t].entry.file_name = n }

\* C11: the queued buckets have pairwise distinct file names
\* {prefix}{sequence}.distcp; at any time a shard file is open for writing in
\* at most one thread, the one that popped its bucket, and it is open exactly
\* while that thread writes it; a file is opened for writing at most once in
\* a run; and every step that changes a shard file is taken by the one
\* thread that owns it.
C11_FileOwnedByOneThread ==
    /\ [](/\ \A i, j \in DOMAIN hist.buckets :
                i # j => hist.buckets[i].file_name # hist.buckets[j].file_name
          /\ \A k \in DOMAIN hist.buckets :
                hist.buckets[k].file_name = GenFile(k - 1)
          /\ \A n \in FileNames :
                /\ Cardinality(Writers(n)) <= 1
                /\ files[n].open <=> Writers(n) # {}
                /\ hist.invoked[n] <= 1
                /\ files[n].exists =>
                      \E k \in DOMAIN hist.buckets : hist.buckets[k].file_name = n)
    /\ [][\A n \in FileNames :
            files'[n] # files[n] =>
               \E t \in Threads :
                  /\ th'[t] # th[t]
                  /\ \A u \in Threads \ {t} : th'[u] = th[u]
                  /\ \/ th[t].pc = "write" /\ th[t].entry.file_name = n
                     \/ th'[t].pc = "write" /\ th'[t].entry.file_name = n]_vars

\* two threads write at the same time, each its own file
C11_Witness ==
    \E t, u \in Threads :
        /\ t # u
        /\ th[t].pc = "write" /\ th[u].pc = "write"
        /\ th[t].entry.file_name # th[u].entry.file_name
        /\ files[th[t].entry.file_name].open /\ files[th[u].entry.file_name].open

\* the storage index a reader would load from .metadata now
PersistedIndex == PickleLoad(dir_meta[MetadataPath].bytes)

\* C12: after write_data and finish with no failure, .metadata unpickles to
\* an index whose keys are exactly the identities of the plan's items, and
\* every entry names an existing, closed shard file of the run and a byte
\* range inside it.
C12_IndexCoversWrittenItems ==
    (fin.pc = "done" /\ hist.failed = {}) =>
        /\ dir_meta[MetadataPath].exists
        /\ PersistedIndex.ok
        /\ DOMAIN PersistedIndex.storage_data = { plan[i].index : i \in DOMAIN plan }
        /\ \A i \in DOMAIN PersistedIndex.storage_data :
              LET loc == PersistedIndex.storage_data[i]
              IN  /\ loc.relative_path \in FileNames
                  /\ \E k \in DOMAIN hist.buckets :
                        /\ hist.buckets[k].storage_key = loc.relative_path
                        /\ \E m \in DOMAIN hist.buckets[k].write_items :
                              hist.buckets[k].write_items[m].index = i
                  /\ files[loc.relative_path].exists
                  /\ ~files[loc.relative_path].open
                  /\ loc.offset >= 0 /\ loc.length >= 0
                  /\ loc.offset + loc.length <= Len(files[loc.relative_path].bytes)

\* a committed index of two items, one in each of two files
C12_Witness ==
    /\ fin.pc = "done" /\ hist.failed = {}
    /\ Len(plan) = 2
    /\ PersistedIndex.ok
    /\ Cardinality(DOMAIN PersistedIndex.storage_data) = 2
    /\ PersistedIndex.storage_data[1].relative_path
          # PersistedIndex.storage_data[2].relative_path

\* the shape of item req names after narrowing to the requested region
NarrowedShape(req) ==
    LET w == ItemOf(req.storage_index)
    IN  IF req.lengths[1] < w.size[1] THEN req.lengths ELSE w.size

\* an array request whose destination has another shape than its payload
Mismatch(req) == req.type = TENSOR /\ req.dest_shape # NarrowedShape(req)

\* C13: read_data fails exactly when an array request of its plan has a
\* destination whose shape differs from the shape of the decoded, narrowed
\* payload; when it fails no such request has reached the sink (its
\* destination was neither copied into nor committed), and whatever reached
\* the sink has the shape of its destination.
C13_SizeMismatchRaises ==
    rd.pc \in {"done", "read_error"} =>
        /\ rd.pc = "read_error" <=> \E k \in DOMAIN rd.items : Mismatch(rd.items[k])
        /\ \A k \in DOMAIN rd.sink :
              /\ ~Mismatch(rd.sink[k].req)
              /\ rd.sink[k].shape = rd.sink[k].req.dest_shape
              /\ rd.sink[k].req \in Range(rd.items)
        /\ Len(rd.sink) <= Len(rd.items)
        /\ rd.pc = "read_error" => Len(rd.sink) < Len(rd.items)

\* read_data failed on an array request whose destination is too long
C13_Witness ==
    /\ rd.pc = "read_error"
    /\ \E k \in DOMAIN rd.items :
          /\ rd.items[k].type = TENSOR
          /\ rd.items[k].dest_shape[1] > NarrowedShape(rd.items[k])[1]
          /\ \A j \in DOMAIN rd.sink : rd.sink[j].req # rd.items[k]

\* The reference bucketing, stated position by position.
\* the elements of s at the positions in idxs, in order
RECURSIVE PickIdx(_, _, _)
PickIdx(s, idxs, k) ==
    IF k > Len(s) THEN <<>>
    ELSE (IF k \in idxs THEN <<s[k]>> ELSE <<>>) \o PickIdx(s, idxs, k + 1)

\* the place of the array item at input position k in descending size order,
\* equal sizes in input order
RefRank(items, k) ==
    1 + Cardinality({ j \in DOMAIN items :
                        /\ items[j].type # BYTE_IO
                        /\ \/ ItemSize(items[j]) > ItemSize(items[k])
                           \/ ItemSize(items[j]) = ItemSize(items[k]) /\ j < k })

RefSorted(items) ==
    LET pos == { k \in DOMAIN items : items[k].type # BYTE_IO }
    IN  [r \in 1..Cardinality(pos) |->
            items[CHOOSE k \in pos : RefRank(items, k) = r]]

\* the array bytes bucket b holds once the first n items of ts are placed
RECURSIVE RefLoad(_, _, _, _)
RefLoad(ts, asg, b, n) ==
    IF n = 0 THEN 0
    ELSE RefLoad(ts, asg, b, n - 1) + (IF asg[n] = b THEN ItemSize(ts[n]) ELSE 0)

\* the bucket of each item of ts: the lightest so far, lowest index on a tie
RECURSIVE RefAssign(_, _, _)
RefAssign(ts, bins, n) ==
    IF n = 0 THEN <<>>
    ELSE LET asg  == RefAssign(ts, bins, n - 1)
             load == [b \in 1..bins |-> RefLoad(ts, asg, b, n - 1)]
             best == CHOOSE b \in 1..bins :
                        \A c \in 1..bins :
                           load[b] < load[c] \/ (load[b] = load[c] /\ b <= c)
         IN  Append(asg, best)

RefBucket(bins, items, b) ==
    LET blobs == BytesW(items)
        ts    == RefSorted(items)
        asg   == RefAssign(ts, bins, Len(ts))
    IN  PickIdx(blobs, { i \in DOMAIN blobs : (i - 1) % bins = b - 1 }, 1)
           \o PickIdx(ts, { r \in DOMAIN ts : asg[r] = b }, 1)

\* C14: for N >= 2 bucket b holds the blobs whose place among the blobs is b
\* modulo N, in input order, then the array items the greedy assignment
\* gives it (descending size, equal sizes in input order, each to the bucket
\* with the fewest array bytes so far, the lowest index on a tie, blobs not
\* counted); for N = 1 the single list is the input list.
C14_SplitIsReference ==
    sp_out.done =>
        IF sp_bins = 1 THEN sp_out.buckets = <<sp_items>>
        ELSE sp_out.buckets = [b \in 1..sp_bins |-> RefBucket(sp_bins, sp_items, b)]

\* two buckets: a blob and two arrays given smallest first; the larger array
\* joins the blob in the first bucket, the smaller goes to the second
C14_Witness ==
    /\ sp_out.done /\ sp_bins = 2 /\ Len(sp_items) = 3
    /\ sp_items[1].type = TENSOR /\ sp_items[2].type = BYTE_IO
    /\ sp_items[3].type = TENSOR
    /\ ItemSize(sp_items[1]) < ItemSize(sp_items[3])
    /\ sp_out.buckets = << <<sp_items[2], sp_items[3]>>, <<sp_items[1]>> >>

RECURSIVE SumSizes(_)
SumSizes(items) ==
    IF items = <<>> THEN 0 ELSE ItemSize(Head(items)) + SumSizes(Tail(items))

\* the byte size of the largest array item (0 when there is none)
LargestTensor(items) ==
    LET sizes == { ItemSize(items[k]) : k \in { j \in DOMAIN items : items[j].type # BYTE_IO } }
    IN  IF sizes = {} THEN 0 ELSE CHOOSE m \in sizes : \A n \in sizes : n <= m

\* the array bytes of any two of the buckets differ by at most bound
Balanced(buckets, bound) ==
    \A b, c \in DOMAIN buckets :
        SumSizes(TensorW(buckets[b])) - SumSizes(TensorW(buckets[c])) <= bound

\* C15: for N >= 2 the array bytes of any two returned buckets differ by at
\* most the size of the largest array item of the input, and the same holds
\* after every step of the greedy assignment.
C15_SplitBalanced ==
    (sp_out.done /\ sp_bins >= 2) =>
        /\ Balanced(sp_out.buckets, LargestTensor(sp_items))
        /\ \A n \in 0..Len(TensorW(sp_items)) :
              Balanced(AssignTensors([b \in 1..sp_bins |-> <<>>],
                                     [b \in 1..sp_bins |-> 0],
                                     SubSeq(SortDescBySize(TensorW(sp_items)), 1, n)),
                       LargestTensor(sp_items))

\* three arrays over two buckets that end as far apart as the bound allows
C15_Witness ==
    /\ sp_out.done /\ sp_bins = 2
    /\ Len(TensorW(sp_items)) = 3
    /\ LargestTensor(sp_items) > 0
    /\ SumSizes(TensorW(sp_out.buckets[1])) - SumSizes(TensorW(sp_out.buckets[2]))
          = LargestTensor(sp_items)

\* the position of the item with identity i in a list of items
PosIn(items, i) == CHOOSE k \in DOMAIN items : items[k].index = i

\* the results recorded for one file follow order: an item that comes
\* earlier in order was written earlier and does not lie behind a later one
\* (an empty item shares its offset with the item written next)
LaidOutAs(act, order) ==
    /\ \A i \in DOMAIN act : \E k \in DOMAIN order : order[k].index = act[i].index
    /\ \A i, j \in DOMAIN act :
          PosIn(order, act[i].index) < PosIn(order, act[j].index)
             => /\ i < j
                /\ act[i].storage_data.offset <= act[j].storage_data.offset
                /\ act[i].storage_data.length > 0
                      => act[i].storage_data.offset < act[j].storage_data.offset

\* C16 as stated: in every shard file the offsets increase in the order of
\* the bucket list handed to the shard writer.
C16_LayoutFollowsBucketOrder ==
    \A k \in DOMAIN hist.buckets :
        LaidOutAs(ResultsOf(hist.buckets[k].storage_key), hist.buckets[k].write_items)

\* the array items of a bucket in ascending size order, equal sizes in bucket
\* order
AscBySize(items) ==
    LET rank(k) == 1 + Cardinality({ j \in DOMAIN items :
                          \/ ItemSize(items[j]) < ItemSize(items[k])
                          \/ ItemSize(items[j]) = ItemSize(items[k]) /\ j < k })
    IN  [r \in DOMAIN items |-> items[CHOOSE k \in DOMAIN items : rank(k) = r]]

BlobsFirst(items) ==
    \A i, j \in DOMAIN items :
        (items[i].type # BYTE_IO /\ items[j].type = BYTE_IO) => j < i

\* C16 amended: in every shard file the blobs come first, in bucket order,
\* then the array items: in bucket order under the direct strategy, in
\* ascending size order (equal sizes in bucket order) under the overlapped
\* one. The layout is the bucket order when the bucket lists its blobs before
\* its arrays (as every bucket of N >= 2 does) and the direct strategy is
\* used or the arrays are in non-decreasing size order.
C16_LayoutBlobsThenStaged ==
    \A k \in DOMAIN hist.buckets :
        LET e   == hist.buckets[k]
            act == ResultsOf(e.storage_key)
            overlapped == cuda /\ per_thread_copy_ahead > 0
            arrays == IF overlapped THEN AscBySize(TensorW(e.write_items))
                      ELSE TensorW(e.write_items)
        IN  /\ LaidOutAs(act, BytesW(e.write_items) \o arrays)
            /\ (single_file_per_rank /\ thread_count >= 2) => BlobsFirst(e.write_items)
            /\ (BlobsFirst(e.write_items)
                  /\ (~overlapped \/ NonDecreasing(TensorW(e.write_items))))
                 => LaidOutAs(act, e.write_items)

\* a file of one bucket for the whole plan, written through the overlapped
\* loader: the larger array was listed first and lies behind the smaller
C16_Witness ==
    /\ thread_count = 1 /\ single_file_per_rank
    /\ cuda /\ per_thread_copy_ahead > 0
    /\ Len(plan) = 2 /\ plan[1].type = TENSOR /\ plan[2].type = TENSOR
    /\ ItemSize(plan[1]) > ItemSize(plan[2])
    /\ Len(AllResults) = 2
    /\ AllResults[1].index = 2 /\ AllResults[2].index = 1
    /\ AllResults[1].storage_data.offset < AllResults[2].storage_data.offset

\* the type of the plan item a result was recorded for
TypeOf(wr) == ItemOf(wr.index).type

\* the results of one file are contiguous: the first at offset 0, each next
\* one where the previous one ends, the last one ending at the end of a
\* closed file
Contiguous(act, n) ==
    /\ act # <<>> => act[1].storage_data.offset = 0
    /\ \A i \in DOMAIN act :
          i > 1 => act[i].storage_data.offset
                      = act[i - 1].storage_data.offset + act[i - 1].storage_data.length
    /\ (act # <<>> /\ ~files[n].open) =>
          act[Len(act)].storage_data.offset + act[Len(act)].storage_data.length
             = Len(files[n].bytes)

\* C17 as stated: in every shard file the offset of every blob is smaller
\* than the offset of every array item, the first item is at offset 0 and
\* the locators are contiguous.
C17_BlobsBeforeArraysStrict ==
    \A n \in FileNames :
        LET act == ResultsOf(n)
        IN  /\ Contiguous(act, n)
            /\ \A i, j \in DOMAIN act :
                  (TypeOf(act[i]) = BYTE_IO /\ TypeOf(act[j]) # BYTE_IO)
                     => act[i].storage_data.offset < act[j].storage_data.offset

\* C17 amended: in every shard file every blob is written before every array
\* item, so its offset is not larger than the array item's, and smaller
\* unless the blob and every blob written after it are empty; the first item
\* is at offset 0 and the locators are contiguous.
C17_BlobsBeforeArrays ==
    \A n \in FileNames :
        LET act == ResultsOf(n)
        IN  /\ Contiguous(act, n)
            /\ \A i, j \in DOMAIN act :
                  (TypeOf(act[i]) = BYTE_IO /\ TypeOf(act[j]) # BYTE_IO)
                     => /\ i < j
                        /\ act[i].storage_data.offset <= act[j].storage_data.offset
                        /\ (\E k \in i..(j - 1) : act[k].storage_data.length > 0)
                              => act[i].storage_data.offset < act[j].storage_data.offset

\* a file with an empty blob and an array item, both at offset 0
C17_Witness ==
    \E n \in FileNames :
        LET act == ResultsOf(n)
        IN  /\ Len(act) = 2 /\ ~files[n].open
            /\ TypeOf(act[1]) = BYTE_IO /\ TypeOf(act[2]) = TENSOR
            /\ act[1].storage_data.length = 0
            /\ act[2].storage_data.offset = 0
            /\ act[2].storage_data.length > 0

\* thread t is still inside _write_files_from_queue
Running(t) == th[t].pc \in {"get", "write"}

\* C18: the drain of the result queue starts only when no pool thread is
\* running any more; from its first pop on nothing is pushed onto the
\* result queue; and the result list changes, and is handed out, only while
\* no writer thread is running.
C18_DrainAfterJoin ==
    /\ [](/\ wd.draining => \A t \in Threads : ~Running(t)
          /\ wd.res # <<>> => wd.draining
          /\ wd.pc = "returned" => \A t \in Threads : ~Running(t)
          /\ fin.pc # "idle" => \A t \in Threads : ~Running(t))
    /\ [][/\ wd.draining =>
               /\ Len(result_queue') <= Len(result_queue)
               /\ \A t \in Threads : th'[t] = th[t]
          /\ wd'.res # wd.res =>
               /\ \A t \in Threads : ~Running(t)
               /\ wd.joined >= thread_count
               /\ result_queue # <<>>
               /\ wd'.res = wd.res \o Head(result_queue)
               /\ result_queue' = Tail(result_queue)]_vars

\* the drain has taken the first of two batches, the worker's, and both
\* threads have ended
C18_Witness ==
    /\ thread_count = 2 /\ wd.pc = "join" /\ wd.draining
    /\ Len(wd.res) = 1 /\ Len(result_queue) = 1
    /\ th[0].pc = "done" /\ th[1].pc = "done"
    /\ wd.res[1].index = 2

\* the shard file a request is served from
FileOf(req) == rd.storage_data[req.storage_index].relative_path

\* C19: read_data opens every file some request of the plan refers to
\* exactly once, whatever the number and the order of the requests, opens
\* no other file, and serves every request of the plan exactly once, with
\* the payload stored at the locator of the item it names.
C19_EachFileOpenedOnce ==
    rd.pc = "done" =>
        /\ \A i, j \in DOMAIN rd.opened : i # j => rd.opened[i] # rd.opened[j]
        /\ Range(rd.opened) = { FileOf(rd.items[k]) : k \in DOMAIN rd.items }
        /\ Len(rd.sink) = Len(rd.items)
        /\ \A k \in DOMAIN rd.items :
              Cardinality({ j \in DOMAIN rd.sink : rd.sink[j].req = rd.items[k] })
                 = Count(rd.items, rd.items[k])
        /\ \A j \in DOMAIN rd.sink :
              /\ rd.sink[j].req \in Range(rd.items)
              /\ rd.sink[j].data = Expected(rd.sink[j].req)
        \* the requests of one file are served together, in plan order
        /\ \A i, j \in DOMAIN rd.sink :
              (i < j /\ FileOf(rd.sink[i].req) = FileOf(rd.sink[j].req)) =>
                 \A m \in i..j : FileOf(rd.sink[m].req) = FileOf(rd.sink[i].req)

\* three requests, the first and the third for one file and the second for
\* another: two files opened
C19_Witness ==
    /\ rd.pc = "done" /\ Len(rd.items) = 3
    /\ FileOf(rd.items[1]) = FileOf(rd.items[3])
    /\ FileOf(rd.items[1]) # FileOf(rd.items[2])
    /\ Len(rd.opened) = 2
    /\ rd.sink[2].req = rd.items[3]

\* the byte size of the largest registered item (0 when there is none)
LargestAdded(l) ==
    LET sizes == { TensorBytes(l.items[k][2]) : k \in DOMAIN l.items }
    IN  IF sizes = {} THEN 0 ELSE CHOOSE m \in sizes : \A n \in sizes : n <= m

Overlapped == ld.kind = OVERLAPPING /\ ld.inflight_threshhold > 0

\* the generator is about to run an iteration of `while not self._done`
AtLoopHead ==
    /\ gen.phase \in {"created", "running"}
    /\ ~gen.in_finish /\ gen.pending = <<>>
    /\ ~LoaderDone(IF gen.phase = "created" THEN StartLoading(ld) ELSE ld)

\* C20: for the overlapping loader with a positive threshold, in_flight_data
\* is always the byte size of the buffers in current_items and stays below
\* the threshold plus the largest item; a _drain from any reachable state
\* never pops from an empty queue and leaves in_flight_data below the
\* threshold; the _refill after it leaves in_flight_data below the threshold
\* plus the largest item and has advanced idx; and every iteration of the
\* values() loop advances idx, which never exceeds the number of items.
C20_InFlightAccounting ==
    /\ [](Overlapped =>
            /\ ld.in_flight_data = SumSizes(ld.current_items)
            /\ ld.in_flight_data >= 0
            /\ ld.in_flight_data < ld.inflight_threshhold + LargestAdded(ld)
            /\ ld.idx <= Len(ld.items)
            /\ Len(ld.current_items) <= ld.idx
            /\ LET d == Drain(ld)
                   r == Refill(d.l)
               IN  /\ ~d.err
                   /\ d.l.in_flight_data < ld.inflight_threshhold
                   /\ d.l.in_flight_data = SumSizes(d.l.current_items)
                   /\ r.in_flight_data = SumSizes(r.current_items)
                   /\ r.in_flight_data < ld.inflight_threshhold + LargestAdded(ld)
                   /\ ~LoaderDone(ld) => r.idx > ld.idx)
    /\ [][(Overlapped /\ gen' # gen) =>
             /\ ld'.idx >= ld.idx
             /\ AtLoopHead => ld'.idx > ld.idx
             /\ gen'.phase # "raised"]_vars

\* an iteration of the loop drained two buffers and staged the third item,
\* which alone fills the threshold
C20_Witness ==
    /\ Overlapped /\ gen.phase = "running"
    /\ Len(gen.out) = 1 /\ Len(gen.pending) = 1
    /\ ld.idx = 3 /\ Len(ld.current_items) = 1
    /\ ld.in_flight_data = ld.inflight_threshhold

====
